---- MODULE Spec2Model ----
(***************************************************************************)
(* Model of backend/server.py of Kirk-Cataloger: the progress-tracking,    *)
(* cancellation and concurrent-viewer protocol around the Redis store.     *)
(*                                                                         *)
(* One playlist identifier is modelled: every key of the store carries the *)
(* identifier (catalog:<id>, progress:<id>, connections:<id>) and no       *)
(* handler touches the keys of another identifier.  Every Redis command is *)
(* one atomic step; the local computation that follows a command up to the *)
(* next command or external call belongs to the same step.  Requests run   *)
(* in their own threads and interleave at that grain.                      *)
(*                                                                         *)
(* An optional value (a Redis key, a Python None) is a sequence of length  *)
(* at most one: Absent or Some(v).                                         *)
(***************************************************************************)
EXTENDS Integers, Sequences, FiniteSets, TLC

\* ---------------------------------------------------------------- bounds
\* Longest playlist the external video API returns in the model.
MaxItems == 2
\* Cap on the Viewer Count: an attach is not taken beyond it.
MaxConn == 3

\* ------------------------------------------------------------- processes
\* Threads serving POST /api/process-playlist.
Starters == {"s1", "s2"}
\* Threads serving GET /api/playlist/<id>/stream.
Viewers == {"v1", "v2"}

Absent == << >>
Some(v) == << v >>
Val(o) == o[1]

\* Source titles the external playlist API may return.
Titles == {"Song", "Private video"}
\* Mutant: the test of line 149 knows deleted videos only.
Removed_DeletedOnly == {"Deleted video"}

\* Titles that mark a removed or private video (line 149).
Removed == {"Deleted video", "Private video"}

\* One catalog entry as playlistData builds it (ytlink and channel are
\* immutable strings no handler reads and are left out; filterDate and
\* filterType give None and 'Unknown' on the titles of the model).
Entry(pos, name) ==
    [position |-> pos, score |-> 0, title |-> "", artist |-> "",
     date |-> "None", type |-> "Unknown", mbid |-> "", ytname |-> name]

\* The playlists the external API may return: 1..MaxItems entries whose
\* position is the source ordinal.
Playlists ==
    UNION { { [i \in 1..n |-> Entry(i - 1, f[i])] : f \in [1..n -> Titles] }
            : n \in 1..MaxItems }

\* item.update(...) of lines 159-166 with the best match of the lookup.
Enriched(item) ==
    [item EXCEPT !.score = 100, !.title = "T", !.artist = "A feat. B",
                 !.date = "1999", !.type = "Album", !.mbid = "M"]

\* The JSON object saveProgress stores (lines 102-108); the timestamp is
\* wall-clock time and is read by no handler.
ProgressRecord(status, currentItem, totalItems, activeConns) ==
    [status |-> status, currentItem |-> currentItem, totalItems |-> totalItems,
     activeConnections |-> IF activeConns = Absent THEN 0 ELSE Val(activeConns)]

\* Redis INCR / DECR: an absent key counts as 0.
Incr(c) == IF c = Absent THEN Some(1) ELSE Some(Val(c) + 1)
Decr(c) == IF c = Absent THEN Some(-1) ELSE Some(Val(c) - 1)

VARIABLES
    progress,      \* key progress:<id>
    catalog,       \* key catalog:<id>
    connections,   \* key connections:<id>
    start,         \* per start-run request: position and locals
    view,          \* per stream request: position and locals
    cancel,        \* the cancel request: position in clearProgress
    att,           \* history: what each viewer's attach found, and since
    cancelledMid,  \* history: a cancel called mid-run has returned
    aborted        \* history: the last run aborted on a failed fetch

store == << progress, catalog, connections >>
vars == << progress, catalog, connections, start, view, cancel,
           att, cancelledMid, aborted >>

StartInit ==
    [pc |-> "idle", existingCatalog |-> Absent, existingProgress |-> Absent,
     catalog |-> << >>, idx |-> 0, activeConns |-> Absent, phase |-> "none",
     response |-> [kind |-> "none", data |-> Absent],
     result |-> "none", fetches |-> 0, lookups |-> 0]

ViewInit ==
    [pc |-> "idle", progress |-> Absent, event |-> "none", data |-> Absent,
     current |-> Absent, attaches |-> 0, detaches |-> 0]

\* History of a viewer's attach:
\*   unfinished  the attach found a Progress Record that was not completed,
\*               and no other attach has happened since;
\*   alone       unfinished, and the attach found no viewer counted;
\*   quiet       unfinished, and no other request nor an expiry has changed
\*               a key since the attach;
\*   completed   the attach found a completed Progress Record, and no other
\*               request nor an expiry has changed Progress or Catalog since;
\*   raced       the attach found an unfinished run and another viewer whose
\*               detach had decremented the Viewer Count to zero and had not
\*               yet taken its teardown test.
AttInit ==
    [unfinished |-> FALSE, alone |-> FALSE, quiet |-> FALSE, completed |-> FALSE,
     raced |-> FALSE]

Init ==
    /\ progress = Absent
    /\ catalog = Absent
    /\ connections = Absent
    /\ start = [s \in Starters |-> StartInit]
    /\ view = [v \in Viewers |-> ViewInit]
    /\ cancel = [pc |-> "idle", mid |-> FALSE]
    /\ att = [v \in Viewers |-> AttInit]
    /\ cancelledMid = FALSE
    /\ aborted = FALSE

\* ------------------------------------------------------ history variables
\* A step of the request `self` (NoViewer for a request that is no stream):
\* att[self] becomes own, the history of every other viewer decays.
Decayed(h) ==
    LET u == h.unfinished /\ (connections' = connections \/ connections' # Incr(connections))
    IN  [unfinished |-> u,
         alone |-> h.alone /\ u,
         quiet |-> h.quiet /\ u /\ (store' = store),
         completed |-> h.completed /\ (progress' = progress) /\ (catalog' = catalog),
         raced |-> h.raced]

KeepOthers(self, own) ==
    att' = [v \in Viewers |-> IF v = self THEN own ELSE Decayed(att[v])]

NoViewer == "-"

\* ---------------------------------------------------------- store helpers
\* Mutant: clearProgress without its clearCatalog call.
clearProgress_NoCatalog(k) ==
    /\ progress' = IF k = 1 THEN Absent ELSE progress
    /\ connections' = IF k = 2 THEN Absent ELSE connections
    /\ catalog' = catalog

\* clearProgress (lines 115-119): three DELETE commands, k = 1, 2, 3.
clearProgress(k) ==
    /\ progress' = IF k = 1 THEN Absent ELSE progress
    /\ connections' = IF k = 2 THEN Absent ELSE connections
    /\ catalog' = IF k = 3 THEN Absent ELSE catalog

\* incrementConnections (lines 121-122), not taken beyond MaxConn.
CanAttach == IF connections = Absent THEN TRUE ELSE Val(connections) < MaxConn
incrementConnections == connections' = Incr(connections)

\* Mutant: the check of line 145 stops on a missing record only.
MustStop_AbsentOnly(p) == p = Absent

\* The cooperative-cancellation test of line 145 on the record just read.
MustStop(p) == IF p = Absent THEN TRUE ELSE Val(p).activeConnections <= 0

\* Mutant: the cache test compares the status with a misspelt word.
CacheHit_Typo(existingCatalog, existingProgress) ==
    /\ existingCatalog # Absent
    /\ Len(Val(existingCatalog)) > 0
    /\ existingProgress # Absent
    /\ Val(existingProgress).status = "complete"

\* The cache test of line 245.
CacheHit(existingCatalog, existingProgress) ==
    /\ existingCatalog # Absent
    /\ Len(Val(existingCatalog)) > 0
    /\ existingProgress # Absent
    /\ Val(existingProgress).status = "completed"

\* ------------------------------------------ startProcess / processPlaylist
\* The run of a start-run request is between its initial and its final
\* Progress write.
RunMid(s) ==
    \/ start[s].pc \in {"check", "lookup", "saveCat"}
    \/ start[s].pc \in {"spRead", "spWrite"} /\ start[s].phase \in {"item", "final"}

StartFrame == UNCHANGED << view, cancel >>

\* line 242: a new request begins and reads the Catalog snapshot.
StartGetCatalog(s) ==
    /\ start[s].pc \in {"idle", "done"}
    /\ start' = [start EXCEPT ![s] =
                    [StartInit EXCEPT !.pc = "getProgress",
                                      !.existingCatalog = catalog]]
    /\ UNCHANGED << store, view >>
    /\ cancel' = [cancel EXCEPT !.mid = FALSE]
    /\ cancelledMid' = FALSE
    /\ aborted' = FALSE
    /\ KeepOthers(NoViewer, AttInit)

\* lines 243-245: read the Progress Record and take the cache test.
StartGetProgress(s) ==
    /\ start[s].pc = "getProgress"
    /\ start' = [start EXCEPT ![s] =
                    IF CacheHit(start[s].existingCatalog, progress)
                    THEN [@ EXCEPT !.existingProgress = progress, !.pc = "cachedIncr"]
                    ELSE [StartInit EXCEPT !.pc = "clear1", !.phase = "pre"]]
    /\ UNCHANGED store
    /\ StartFrame
    /\ UNCHANGED << cancelledMid, aborted >>
    /\ KeepOthers(NoViewer, AttInit)

\* lines 246-252: attach a viewer and answer with the cached snapshot.
StartCached(s) ==
    /\ start[s].pc = "cachedIncr"
    /\ CanAttach
    /\ incrementConnections
    /\ UNCHANGED << progress, catalog >>
    /\ start' = [start EXCEPT ![s] =
                    [@ EXCEPT !.pc = "done",
                              !.existingCatalog = Absent,
                              !.existingProgress = Absent,
                              !.response = [kind |-> "completed",
                                            data |-> start[s].existingCatalog]]]
    /\ StartFrame
    /\ UNCHANGED << cancelledMid, aborted >>
    /\ KeepOthers(NoViewer, AttInit)

\* Mutant: the abort deletes the Progress Record alone.
AfterClear_ProgressOnly(k, phase) ==
    IF phase = "abort" THEN "respond"
    ELSE IF k = 1 THEN "clear2"
    ELSE IF k = 2 THEN "clear3"
    ELSE "incr"

\* Where the k-th DELETE of a clearProgress of the request leads: line 254
\* goes on to the attach, line 180 returns None to startProcess.
AfterClear(k, phase) ==
    IF k = 1 THEN "clear2"
    ELSE IF k = 2 THEN "clear3"
    ELSE IF phase = "pre" THEN "incr" ELSE "respond"

\* line 254 (phase pre) and line 180 (phase abort): one DELETE per step.
StartClear(s, k) ==
    /\ start[s].pc = << "clear1", "clear2", "clear3" >>[k]
    /\ clearProgress(k)
    /\ start' = [start EXCEPT ![s].pc = AfterClear(k, start[s].phase),
                              ![s].result = IF AfterClear(k, start[s].phase) = "respond"
                                            THEN "aborted" ELSE @]
    /\ StartFrame
    /\ cancelledMid' = cancelledMid
    /\ aborted' = (aborted \/ start'[s].pc = "respond")
    /\ KeepOthers(NoViewer, AttInit)

\* line 255.
StartAttach(s) ==
    /\ start[s].pc = "incr"
    /\ CanAttach
    /\ incrementConnections
    /\ UNCHANGED << progress, catalog >>
    /\ start' = [start EXCEPT ![s].pc = "fetch"]
    /\ StartFrame
    /\ UNCHANGED << cancelledMid, aborted >>
    /\ KeepOthers(NoViewer, AttInit)

\* What playlistData (lines 183-222) hands back: None on any failure, else
\* the list of entries, which is empty for an empty playlist.
FetchResults == {Absent, Some(<< >>)} \cup { Some(pl) : pl \in Playlists }

\* Lines 137-138: None and the empty list both raise PlaylistError.
FetchFailed(fetched) == IF fetched = Absent THEN TRUE ELSE Len(Val(fetched)) = 0

\* lines 136-140: fetch the playlist; a failed fetch raises into line 179.
RunFetch(s) ==
    /\ start[s].pc = "fetch"
    /\ \E fetched \in FetchResults :
          start' = [start EXCEPT
                      ![s].fetches = @ + 1,
                      ![s].catalog = IF FetchFailed(fetched) THEN << >> ELSE Val(fetched),
                      ![s].pc = IF FetchFailed(fetched) THEN "clear1" ELSE "spRead",
                      ![s].phase = IF FetchFailed(fetched) THEN "abort" ELSE "init"]
    /\ UNCHANGED store
    /\ StartFrame
    /\ UNCHANGED << cancelledMid, aborted >>
    /\ KeepOthers(NoViewer, AttInit)

\* saveProgress, line 98: read the Viewer Count.
RunSaveProgressRead(s) ==
    /\ start[s].pc = "spRead"
    /\ start' = [start EXCEPT ![s].activeConns = connections, ![s].pc = "spWrite"]
    /\ UNCHANGED store
    /\ StartFrame
    /\ UNCHANGED << cancelledMid, aborted >>
    /\ KeepOthers(NoViewer, AttInit)

\* Mutant: the final saveProgress leaves currentItem at its default of 0.
SavedItem_FinalDefault(phase, idx, totalItems) ==
    IF phase = "item" THEN idx + 1 ELSE 0

\* Mutant: the calls of lines 141 and 170 leave status at its default.
SavedStatus_Default(phase) == IF phase = "final" THEN "completed" ELSE "inProgress"

\* The arguments of the three saveProgress calls (lines 141, 170, 176).
SavedStatus(phase) == IF phase = "final" THEN "completed" ELSE "processing"
SavedItem(phase, idx, totalItems) ==
    IF phase = "init" THEN 0 ELSE IF phase = "item" THEN idx + 1 ELSE totalItems

\* The loop of line 143 after entry idx: the next entry, or line 176.
NextEntry(r) ==
    IF r.idx + 1 < Len(r.catalog)
    THEN [r EXCEPT !.idx = @ + 1, !.pc = "check"]
    ELSE [r EXCEPT !.idx = @ + 1, !.pc = "spRead", !.phase = "final"]

\* saveProgress, lines 99-109: write the record, then go on in the run.
RunSaveProgressWrite(s) ==
    LET r == start[s]
        totalItems == Len(r.catalog)
    IN  /\ r.pc = "spWrite"
        /\ progress' = Some(ProgressRecord(SavedStatus(r.phase),
                                           SavedItem(r.phase, r.idx, totalItems),
                                           totalItems, r.activeConns))
        /\ UNCHANGED << catalog, connections >>
        /\ start' = [start EXCEPT ![s] =
                        IF r.phase = "init" THEN [r EXCEPT !.pc = "check"]
                        ELSE IF r.phase = "item" THEN NextEntry(r)
                        ELSE [r EXCEPT !.pc = "respond", !.result = "completed"]]
        /\ StartFrame
        /\ UNCHANGED << cancelledMid, aborted >>
        /\ KeepOthers(NoViewer, AttInit)

\* lines 144-146: the cooperative-cancellation check before entry idx.
RunCheck(s) ==
    /\ start[s].pc = "check"
    /\ start' = [start EXCEPT ![s] =
                    IF MustStop(progress)
                    THEN [@ EXCEPT !.pc = "respond", !.result = "stopped"]
                    ELSE [@ EXCEPT !.pc = "lookup"]]
    /\ UNCHANGED store
    /\ StartFrame
    /\ UNCHANGED << cancelledMid, aborted >>
    /\ KeepOthers(NoViewer, AttInit)

LookupOutcomes == {"match", "nomatch", "error"}

\* Mutant: an error of the lookup is not caught at line 173 and aborts the
\* run through line 179.
RunLookup_ErrorAborts(s) ==
    LET r == start[s]
        item == r.catalog[r.idx + 1]
    IN  /\ r.pc = "lookup"
        /\ \/ /\ item.ytname \in Removed
              /\ start' = [start EXCEPT ![s].pc = "saveCat"]
           \/ /\ item.ytname \notin Removed
              /\ \E outcome \in LookupOutcomes :
                    start' = [start EXCEPT ![s] =
                       IF outcome = "error"
                       THEN [r EXCEPT !.lookups = @ + 1, !.pc = "clear1",
                                      !.phase = "abort"]
                       ELSE [r EXCEPT !.lookups = @ + 1,
                                      !.pc = "saveCat",
                                      !.catalog[r.idx + 1] =
                                          IF outcome = "match" THEN Enriched(item)
                                          ELSE item]]
        /\ UNCHANGED store
        /\ StartFrame
        /\ UNCHANGED << cancelledMid, aborted >>
        /\ KeepOthers(NoViewer, AttInit)

\* lines 148-166 and 173-174: a removed or private video is not looked up;
\* a match overwrites the entry; an error of the lookup skips lines
\* 168-171 and continues with the next entry.
RunLookup(s) ==
    LET r == start[s]
        item == r.catalog[r.idx + 1]
    IN  /\ r.pc = "lookup"
        /\ \/ /\ item.ytname \in Removed
              /\ start' = [start EXCEPT ![s].pc = "saveCat"]
           \/ /\ item.ytname \notin Removed
              /\ \E outcome \in LookupOutcomes :
                    start' = [start EXCEPT ![s] =
                       IF outcome = "error"
                       THEN NextEntry([r EXCEPT !.lookups = @ + 1])
                       ELSE [r EXCEPT !.lookups = @ + 1,
                                      !.pc = "saveCat",
                                      !.catalog[r.idx + 1] =
                                          IF outcome = "match" THEN Enriched(item)
                                          ELSE item]]
        /\ UNCHANGED store
        /\ StartFrame
        /\ UNCHANGED << cancelledMid, aborted >>
        /\ KeepOthers(NoViewer, AttInit)

\* Mutant: line 169 stores the entries handled so far, not the whole list.
RunSaveCatalog_Prefix(s) ==
    /\ start[s].pc = "saveCat"
    /\ catalog' = Some(SubSeq(start[s].catalog, 1, start[s].idx + 1))
    /\ UNCHANGED << progress, connections >>
    /\ start' = [start EXCEPT ![s].pc = "spRead", ![s].phase = "item"]
    /\ StartFrame
    /\ UNCHANGED << cancelledMid, aborted >>
    /\ KeepOthers(NoViewer, AttInit)

\* lines 168-169: write the whole snapshot.
RunSaveCatalog(s) ==
    /\ start[s].pc = "saveCat"
    /\ catalog' = Some(start[s].catalog)
    /\ UNCHANGED << progress, connections >>
    /\ start' = [start EXCEPT ![s].pc = "spRead", ![s].phase = "item"]
    /\ StartFrame
    /\ UNCHANGED << cancelledMid, aborted >>
    /\ KeepOthers(NoViewer, AttInit)

\* lines 256-261: processPlaylist has returned; answer {success, playlistId}.
StartRespond(s) ==
    /\ start[s].pc = "respond"
    /\ start' = [start EXCEPT ![s] =
                    [StartInit EXCEPT !.pc = "done",
                                      !.result = start[s].result,
                                      !.fetches = start[s].fetches,
                                      !.lookups = start[s].lookups,
                                      !.response = [kind |-> "started", data |-> Absent]]]
    /\ UNCHANGED store
    /\ StartFrame
    /\ UNCHANGED << cancelledMid, aborted >>
    /\ KeepOthers(NoViewer, AttInit)

startProcess(s) ==
    \/ StartGetCatalog(s)
    \/ StartGetProgress(s)
    \/ StartCached(s)
    \/ \E k \in 1..3 : StartClear(s, k)
    \/ StartAttach(s)
    \/ RunFetch(s)
    \/ RunSaveProgressRead(s)
    \/ RunSaveProgressWrite(s)
    \/ RunCheck(s)
    \/ RunLookup(s)
    \/ RunSaveCatalog(s)
    \/ StartRespond(s)

\* ------------------------------------------------ getStatus, cancelProcess
\* lines 315-319: one GET of the Progress Record decides the answer; the
\* handler changes no state, so its answer is a function of the state.
getStatus == IF progress = Absent THEN "404" ELSE "200"

\* line 323: the three DELETEs of clearProgress, then the acknowledgment.
\* cancel.mid remembers whether a run was between its initial and final
\* Progress write when the cancel was called.
cancelProcess(k) ==
    /\ cancel.pc = << "idle", "clear2", "clear3" >>[k]
    /\ clearProgress(k)
    /\ cancel' = [pc |-> << "clear2", "clear3", "idle" >>[k],
                  mid |-> IF k = 1 THEN \E s \in Starters : RunMid(s) ELSE cancel.mid]
    /\ cancelledMid' = (cancelledMid \/ (k = 3 /\ cancel.mid))
    /\ UNCHANGED << start, view, aborted >>
    /\ KeepOthers(NoViewer, AttInit)

\* ----------------------------------------------------------- key expiry
\* setex gives progress:<id> and catalog:<id> a time-to-live of
\* CACHE_DURATION seconds (lines 87, 99-101); connections:<id> has none.
ExpireProgress ==
    /\ progress # Absent
    /\ progress' = Absent
    /\ UNCHANGED << catalog, connections, start, view, cancel,
                    cancelledMid, aborted >>
    /\ KeepOthers(NoViewer, AttInit)

ExpireCatalog ==
    /\ catalog # Absent
    /\ catalog' = Absent
    /\ UNCHANGED << progress, connections, start, view, cancel,
                    cancelledMid, aborted >>
    /\ KeepOthers(NoViewer, AttInit)

\* ------------------------------------- streamProcess.generate, per viewer
ViewFrame == UNCHANGED << start, cancel, cancelledMid, aborted >>

\* The viewer is between its attach and the return of its detach.
Attached(v) == view[v].pc \notin {"idle", "done"}

\* Mutant: the teardown test forgets the status.
Abandoned_IgnoresStatus(p) == p # Absent

\* The teardown test of line 130 on the record just read.
Abandoned(p) == p # Absent /\ Val(p).status # "completed"

\* What an attach finds: a record of an unfinished run, no viewer counted,
\* a record of a completed run.
OnUnfinished == progress # Absent /\ Val(progress).status # "completed"

AloneOnUnfinished ==
    /\ IF connections = Absent THEN TRUE ELSE Val(connections) <= 0
    /\ OnUnfinished

OnCompleted == progress # Absent /\ Val(progress).status = "completed"

\* Another viewer is inside decrementConnections, between a DECR that gave
\* zero (line 126) and its teardown test (line 130).
InDetachWindow(v) ==
    \E w \in Viewers \ {v} :
        /\ view[w].pc \in {"delConn", "detProgress"}
        /\ view[w].current = Some(0)

\* line 272: a stream request begins with incrementConnections.
ViewAttach(v) ==
    /\ view[v].pc \in {"idle", "done"}
    /\ CanAttach
    /\ incrementConnections
    /\ UNCHANGED << progress, catalog >>
    /\ view' = [view EXCEPT ![v] = [ViewInit EXCEPT !.pc = "getProgress",
                                                    !.attaches = 1]]
    /\ ViewFrame
    /\ KeepOthers(v, [unfinished |-> OnUnfinished,
                       alone |-> AloneOnUnfinished,
                       quiet |-> OnUnfinished,
                       completed |-> OnCompleted,
                       raced |-> OnUnfinished /\ InDetachWindow(v)])

\* line 274, entered from line 272 or after the sleep of line 300.
ViewGetProgress(v) ==
    /\ view[v].pc \in {"getProgress", "yield"}
    /\ view' = [view EXCEPT ![v].progress = progress, ![v].pc = "getCatalog",
                            ![v].event = "none"]
    /\ UNCHANGED store
    /\ ViewFrame
    /\ KeepOthers(v, att[v])

\* The event lines 277-298 emit for the Progress Record p and the Catalog
\* snapshot c just read; "none" when no branch yields.
StreamEvent(p, c) ==
    IF p = Absent THEN "notFound"
    ELSE IF Val(p).activeConnections <= 0 THEN "noActive"
    ELSE IF Val(p).status = "completed" /\ c # Absent THEN "completed"
    ELSE IF Val(p).status = "processing" THEN "processing"
    ELSE "none"

\* Mutant: no break after the 'not found' event.
Terminal_NotFoundPolls == {"noActive", "completed"}

\* The events after which lines 279, 283, 290 break out of the loop.
Terminal == {"notFound", "noActive", "completed"}

\* lines 275-300: read the Catalog snapshot and emit; a terminal event
\* breaks into the finally clause, any other goes to the sleep.
ViewGetCatalog(v) ==
    LET e == StreamEvent(view[v].progress, catalog)
    IN  /\ view[v].pc = "getCatalog"
        /\ view' = [view EXCEPT ![v].progress = Absent,
                                ![v].event = e,
                                ![v].data = IF e = "completed" THEN catalog ELSE Absent,
                                ![v].pc = IF e \in Terminal THEN "detach" ELSE "yield"]
        /\ UNCHANGED store
        /\ ViewFrame
        /\ KeepOthers(v, att[v])

\* Mutant: no finally clause, a stream the observer left just ends.
ViewDisconnect_NoFinally(v) ==
    /\ view[v].pc = "yield"
    /\ view[v].event = "processing"
    /\ view' = [view EXCEPT ![v].pc = "done"]
    /\ UNCHANGED store
    /\ UNCHANGED << start, cancel, cancelledMid, aborted >>
    /\ att' = att

\* The observer goes away while the generator is suspended at the yield of
\* lines 293-298: GeneratorExit runs the finally clause.
ViewDisconnect(v) ==
    /\ view[v].pc = "yield"
    /\ view[v].event = "processing"
    /\ view' = [view EXCEPT ![v].pc = "detach"]
    /\ UNCHANGED store
    /\ ViewFrame
    /\ KeepOthers(v, att[v])

\* decrementConnections returns (line 132): the stream is closed.
Closed(r) == [r EXCEPT !.pc = "done"]

\* lines 126-127: DECR and the test of the new count.
ViewDecr(v) ==
    /\ view[v].pc = "detach"
    /\ connections' = Decr(connections)
    /\ UNCHANGED << progress, catalog >>
    /\ view' = [view EXCEPT ![v] =
                    LET r == [@ EXCEPT !.data = Absent, !.detaches = @ + 1,
                                       !.current = connections']
                    IN  IF Val(connections') <= 0
                        THEN [r EXCEPT !.pc = "delConn"]
                        ELSE Closed(r)]
    /\ ViewFrame
    /\ KeepOthers(v, att[v])

\* Mutant: line 128 spares a Viewer Count another viewer has raised since.
ViewDelConn_Compensated(v) ==
    /\ view[v].pc = "delConn"
    /\ connections' = IF connections # Absent /\ Val(connections) > 0
                      THEN connections ELSE Absent
    /\ UNCHANGED << progress, catalog >>
    /\ view' = [view EXCEPT ![v] = IF connections' # Absent THEN Closed(@)
                                   ELSE [@ EXCEPT !.pc = "detProgress"]]
    /\ ViewFrame
    /\ KeepOthers(v, att[v])

\* line 128.
ViewDelConn(v) ==
    /\ view[v].pc = "delConn"
    /\ connections' = Absent
    /\ UNCHANGED << progress, catalog >>
    /\ view' = [view EXCEPT ![v].pc = "detProgress"]
    /\ ViewFrame
    /\ KeepOthers(v, att[v])

\* lines 129-130.
ViewDetachGetProgress(v) ==
    /\ view[v].pc = "detProgress"
    /\ view' = [view EXCEPT ![v] = IF Abandoned(progress)
                                   THEN [@ EXCEPT !.pc = "clear1"]
                                   ELSE Closed(@)]
    /\ UNCHANGED store
    /\ ViewFrame
    /\ KeepOthers(v, att[v])

\* line 131: the three DELETEs of clearProgress.
ViewClear(v, k) ==
    /\ view[v].pc = << "clear1", "clear2", "clear3" >>[k]
    /\ clearProgress(k)
    /\ view' = [view EXCEPT ![v] = IF k = 3 THEN Closed(@)
                                   ELSE [@ EXCEPT !.pc = << "clear2", "clear3" >>[k]]]
    /\ ViewFrame
    /\ KeepOthers(v, att[v])

streamProcess(v) ==
    \/ ViewAttach(v)
    \/ ViewGetProgress(v)
    \/ ViewGetCatalog(v)
    \/ ViewDisconnect(v)
    \/ ViewDecr(v)
    \/ ViewDelConn(v)
    \/ ViewDetachGetProgress(v)
    \/ \E k \in 1..3 : ViewClear(v, k)

\* One start-run thread, one stream, cancel and key expiry.
Next ==
    \/ \E s \in {"s1"} : startProcess(s)
    \/ \E v \in {"v1"} : streamProcess(v)
    \/ \E k \in 1..3 : cancelProcess(k)
    \/ ExpireProgress
    \/ ExpireCatalog

Spec == Init /\ [][Next]_vars

\* Scheduling: a request thread that has begun keeps running (the external
\* calls return), a stream keeps polling while its observer stays, a cancel
\* that has begun finishes, and a Progress Record that is not deleted
\* expires.  That a request arrives, or an observer leaves, is never forced.
RequestStep(s) ==
    \/ StartGetProgress(s)
    \/ StartCached(s)
    \/ \E k \in 1..3 : StartClear(s, k)
    \/ StartAttach(s)
    \/ RunFetch(s)
    \/ RunSaveProgressRead(s)
    \/ RunSaveProgressWrite(s)
    \/ RunCheck(s)
    \/ RunLookup(s)
    \/ RunSaveCatalog(s)
    \/ StartRespond(s)

StreamStep(v) ==
    \/ ViewGetProgress(v)
    \/ ViewGetCatalog(v)
    \/ ViewDecr(v)
    \/ ViewDelConn(v)
    \/ ViewDetachGetProgress(v)
    \/ \E k \in 1..3 : ViewClear(v, k)

\* One start-run thread, one stream and key expiry, under that scheduling.
NextLive ==
    \/ \E s \in {"s1"} : startProcess(s)
    \/ \E v \in {"v1"} : streamProcess(v)
    \/ ExpireProgress
    \/ ExpireCatalog

Fairness ==
    /\ \A s \in Starters : WF_vars(RequestStep(s))
    /\ WF_vars(StreamStep("v1"))
    /\ WF_vars(ExpireProgress)

SpecLive == Init /\ [][NextLive]_vars /\ Fairness

\* Two start-run requests for the identifier, each served once, in threads
\* of their own (app.run serves every request in a new thread).
NextTwoRuns ==
    \E s \in Starters : start[s].pc # "done" /\ startProcess(s)

SpecTwoRuns == Init /\ [][NextTwoRuns]_vars

\* One start-run request, one stream and a cancel; the stream is served
\* once, so that no detach precedes an event of the stream.
NextOnce ==
    \/ \E s \in {"s1"} : start[s].pc # "done" /\ startProcess(s)
    \/ \E v \in {"v1"} : view[v].pc # "done" /\ streamProcess(v)
    \/ \E k \in 1..3 : cancelProcess(k)

SpecOnce == Init /\ [][NextOnce]_vars

\* One start-run request and two streams, each served once.
NextRace ==
    \/ \E s \in {"s1"} : start[s].pc # "done" /\ startProcess(s)
    \/ \E v \in Viewers : view[v].pc # "done" /\ streamProcess(v)

SpecRace == Init /\ [][NextRace]_vars

\* ------------------------------------------------------------------ claims
AllAbsent == progress = Absent /\ catalog = Absent /\ connections = Absent

\* The step in which the detach of viewer v returns.
DetachReturns(v) == view[v].pc # "done" /\ view'[v].pc = "done"

C2_LastViewerTeardown ==
    [][\A v \in Viewers :
          (/\ DetachReturns(v)
           /\ \A w \in Viewers \ {v} : ~Attached(w)
           /\ \E s \in Starters : RunMid(s)
           /\ OnUnfinished)
              => (progress' = Absent /\ catalog' = Absent /\ connections' = Absent)]_vars

\* C3 as stated: after a cancel called mid-run has returned, and until a
\* new start-run begins, status answers 404.
C3_CancelThenNotFound == cancelledMid => getStatus = "404"

\* C4: every step of a viewer that attached to a completed run, attach and
\* detach included, leaves the Progress Record completed and leaves the
\* Progress Record and the Catalog snapshot as they are.
C4_Survivability ==
    [][\A v \in Viewers :
          (att[v].completed /\ view'[v] # view[v] /\ Attached(v))
              => (OnCompleted /\ progress' = progress /\ catalog' = catalog)]_vars

\* The detach of such a viewer brought the count to zero and deleted it.
C4_Witness ==
    \E v \in Viewers :
        /\ view[v].pc = "done"
        /\ att[v].completed
        /\ view[v].detaches = 1
        /\ Val(view[v].current) <= 0
        /\ connections = Absent
        /\ OnCompleted
        /\ catalog # Absent

\* C5: whenever a stored Progress Record is replaced by another, the
\* cursor does not decrease and 'completed' does not go back to
\* 'processing'; otherwise the record is deleted.
C5_Monotonic ==
    [][(progress # Absent /\ progress' # Absent)
          => /\ Val(progress').currentItem >= Val(progress).currentItem
             /\ (Val(progress).status = "completed"
                    => Val(progress').status = "completed")]_vars

\* A run has gone through all its records up to 'completed'.
C5_Witness ==
    /\ OnCompleted
    /\ Val(progress).currentItem >= 2
    /\ \E s \in Starters : start[s].result = "completed"

\* C7: a stream attaches once when it starts and detaches once when it
\* ends, on every exit path; it never detaches twice nor closes without
\* a detach.
C7_AttachDetachOnce ==
    \A v \in Viewers :
        /\ view[v].attaches <= 1
        /\ view[v].detaches <= view[v].attaches
        /\ view[v].pc \in {"getProgress", "getCatalog", "yield", "detach"}
              => (view[v].attaches = 1 /\ view[v].detaches = 0)
        /\ view[v].pc \in {"delConn", "detProgress", "clear1", "clear2", "clear3", "done"}
              => (view[v].attaches = 1 /\ view[v].detaches = 1)

\* A stream the observer left during polling has closed.
C7_Witness ==
    \E v \in Viewers :
        view[v].pc = "done" /\ view[v].event = "processing" /\ view[v].detaches = 1

\* C8: a start-run request that finds a Catalog snapshot and a completed
\* Progress Record takes the cached path; the cached path answers
\* 'completed' with the snapshot it read, fetches and looks up nothing, and
\* leaves Progress Record and Catalog snapshot as they are.
C8_CachedStart ==
    [][\A s \in Starters :
          /\ (start[s].pc = "getProgress" /\ start[s].existingCatalog # Absent
                 /\ OnCompleted /\ start'[s] # start[s])
                => start'[s].pc = "cachedIncr"
          /\ (start[s].pc = "cachedIncr" /\ start'[s] # start[s])
                => /\ start'[s].pc = "done"
                   /\ start'[s].response = [kind |-> "completed",
                                            data |-> start[s].existingCatalog]
                   /\ start'[s].fetches = 0
                   /\ start'[s].lookups = 0
                   /\ progress' = progress
                   /\ catalog' = catalog]_vars

\* The cached answer carries the stored snapshot of the completed run.
C8_Witness ==
    \E s \in Starters :
        /\ start[s].pc = "done"
        /\ start[s].response.kind = "completed"
        /\ start[s].response.data = catalog
        /\ OnCompleted

\* C9 as stated: the {success, playlistId} answer of start-run is given
\* before the run it began has gone through an entry or written
\* 'completed'.
C9_RespondsBeforeRunEnds ==
    [][\A s \in Starters :
          (start[s].pc # "done" /\ start'[s].pc = "done"
             /\ start'[s].response.kind = "started")
              => (start[s].result # "completed" /\ start[s].idx = 0)]_vars

\* C10: after a run aborted on a failed fetch, and until the next
\* start-run, there was one fetch and no retry, Progress Record and Catalog
\* snapshot are absent, the Viewer Count is absent unless a stream is
\* attached, status and a stream poll see 'not found'; and no stored
\* record ever carries a status other than processing or completed.
C10_AbortClears ==
    /\ progress # Absent => Val(progress).status \in {"processing", "completed"}
    /\ aborted =>
          /\ progress = Absent
          /\ catalog = Absent
          /\ (\A v \in Viewers : ~Attached(v)) => connections = Absent
          /\ getStatus = "404"
          /\ StreamEvent(progress, catalog) = "notFound"
          /\ \A s \in Starters :
                start[s].result = "aborted" => (start[s].fetches = 1 /\ start[s].lookups = 0)

C10_Witness ==
    /\ aborted
    /\ AllAbsent
    /\ \E s \in Starters : start[s].pc = "done" /\ start[s].result = "aborted"

\* C6: when from some point on no start-run request begins, every attached
\* stream closes.
C6_Witness ==
    \E v \in Viewers :
        /\ view[v].pc = "done"
        /\ view[v].event = "notFound"
        /\ \E s \in Starters : start[s].pc = "done" /\ start[s].result = "completed"

C6_StreamsClose ==
    <>[][\A s \in Starters : ~StartGetCatalog(s)]_vars
        => \A v \in Viewers : (Attached(v) ~> view[v].pc = "done")

\* The run of request s has passed the cancellation check of an entry
\* after its first and is about to write Catalog or Progress for it.
KeepsWriting(s) ==
    /\ start[s].idx >= 1
    /\ \/ start[s].pc \in {"lookup", "saveCat"}
       \/ start[s].pc \in {"spRead", "spWrite"} /\ start[s].phase = "item"

\* C11 as stated: no two runs for the identifier are at the same time past
\* a cancellation check and writing Progress and Catalog.
C11_SingleWriter ==
    \A s, t \in Starters : (s # t) => ~(KeepsWriting(s) /\ KeepsWriting(t))

\* The entries of c carry the positions 0..Len(c)-1 in order.
SourceOrder(c) == \A i \in 1..Len(c) : c[i].position = i - 1

\* The run of request s holds the list it fetched (lines 136-177).
InFlight(s) == start[s].catalog # << >>

\* The entries of c are those of the fetched list l up to enrichment: same
\* number, same positions and source titles in the same order.
SameEntries(c, l) ==
    /\ Len(c) = Len(l)
    /\ \A i \in 1..Len(l) :
          c[i].position = l[i].position /\ c[i].ytname = l[i].ytname

\* C12: every stored Catalog snapshot has the fetched entries in source
\* order with positions 0..N-1, N being the length of the list the run
\* fetched; the 'completed' event of a stream carries the stored snapshot;
\* and a lookup step changes nothing but the entry at the current index,
\* whose position and source title it keeps.
C12_SnapshotShape ==
    /\ [](/\ catalog # Absent =>
                /\ Len(Val(catalog)) >= 1
                /\ SourceOrder(Val(catalog))
                /\ \A s \in Starters :
                      InFlight(s) => SameEntries(Val(catalog), start[s].catalog)
          /\ \A s \in Starters : SourceOrder(start[s].catalog)
          /\ \A v \in Viewers :
                view[v].data # Absent => SourceOrder(Val(view[v].data)))
    /\ [][/\ \A s \in Starters :
                (start[s].pc = "lookup" /\ start'[s] # start[s])
                    => /\ SameEntries(start'[s].catalog, start[s].catalog)
                       /\ \A j \in 1..Len(start[s].catalog) :
                             j # start[s].idx + 1
                                => start'[s].catalog[j] = start[s].catalog[j]
          /\ \A v \in Viewers :
                (view[v].pc = "getCatalog" /\ view'[v].event = "completed")
                    => (view'[v].data = catalog /\ catalog # Absent)]_vars

\* A stream has received the 'completed' event with both entries of a
\* two-item playlist, the second one enriched.
C12_Witness ==
    \E v \in Viewers :
        /\ view[v].event = "completed"
        /\ view[v].data # Absent
        /\ Len(Val(view[v].data)) = 2
        /\ Val(view[v].data)[2].position = 1
        /\ Val(view[v].data)[2].score = 100

\* The enrichment fields of entry e are the defaults of line 203-208.
Untouched(e) == e.score = 0 /\ e.title = "" /\ e.artist = "" /\ e.mbid = ""

\* C13: an entry titled 'Deleted video' or 'Private video' keeps its
\* default enrichment fields in the list of the run, in every stored
\* snapshot and in every snapshot a stream carries; the step that handles
\* it makes no lookup and goes on to save; and the save of that entry
\* writes a Progress Record whose cursor is past it.
C13_RemovedSkipped ==
    /\ [](/\ \A s \in Starters : \A i \in 1..Len(start[s].catalog) :
                start[s].catalog[i].ytname \in {"Deleted video", "Private video"}
                    => Untouched(start[s].catalog[i])
          /\ catalog # Absent => \A i \in 1..Len(Val(catalog)) :
                Val(catalog)[i].ytname \in {"Deleted video", "Private video"}
                    => Untouched(Val(catalog)[i])
          /\ \A v \in Viewers : view[v].data # Absent =>
                \A i \in 1..Len(Val(view[v].data)) :
                    Val(view[v].data)[i].ytname \in {"Deleted video", "Private video"}
                        => Untouched(Val(view[v].data)[i]))
    /\ [][\A s \in Starters :
             (/\ start[s].pc \in {"lookup", "saveCat", "spRead", "spWrite"}
              /\ start[s].pc = "spRead" => start[s].phase = "item"
              /\ start[s].pc = "spWrite" => start[s].phase = "item"
              /\ start[s].catalog[start[s].idx + 1].ytname
                     \in {"Deleted video", "Private video"}
              /\ start'[s] # start[s])
                => /\ start'[s].lookups = start[s].lookups
                   /\ start'[s].catalog = start[s].catalog
                   /\ start[s].pc = "lookup" => start'[s].pc = "saveCat"
                   /\ start[s].pc = "saveCat"
                         => (start'[s].pc = "spRead" /\ start'[s].phase = "item"
                               /\ catalog' = Some(start[s].catalog))
                   /\ start[s].pc = "spRead" => start'[s].pc = "spWrite"
                   /\ start[s].pc = "spWrite"
                         => /\ progress' # Absent
                            /\ Val(progress').currentItem = start[s].idx + 1
                            /\ start'[s].idx = start[s].idx + 1]_vars

\* A run completed on a playlist whose first entry is private and whose
\* second entry was enriched after the only lookup of the run.
C13_Witness ==
    /\ OnCompleted
    /\ Val(progress).currentItem = 2
    /\ catalog # Absent
    /\ Len(Val(catalog)) = 2
    /\ Val(catalog)[1].ytname = "Private video"
    /\ Untouched(Val(catalog)[1])
    /\ Val(catalog)[2].score = 100
    /\ \E s \in Starters : start[s].result = "completed" /\ start[s].lookups = 1

\* C14: a run whose check before an entry finds the Progress Record absent
\* or with activeConnections <= 0 returns at once: neither that step nor
\* any later step of the request, up to the next request, writes or
\* deletes a key, and no lookup is made.
C14_StopsAtCheck ==
    [][\A s \in Starters :
          /\ (/\ start[s].pc = "check"
              /\ (IF progress = Absent THEN TRUE
                  ELSE Val(progress).activeConnections <= 0)
              /\ start'[s] # start[s])
                => /\ start'[s].pc = "respond"
                   /\ start'[s].result = "stopped"
                   /\ start'[s].lookups = start[s].lookups
                   /\ store' = store
          /\ (start[s].result = "stopped" /\ start'[s] # start[s])
                => /\ store' = store
                   /\ \/ start[s].pc = "respond" /\ start'[s].pc = "done"
                            /\ start'[s].lookups = start[s].lookups
                      \/ start[s].pc = "done" /\ start'[s].pc = "getProgress"]_vars

\* A run has stopped on a record with no active connection and the record
\* is still there.
C14_Witness ==
    /\ progress # Absent
    /\ Val(progress).activeConnections <= 0
    /\ Val(progress).status = "processing"
    /\ \E s \in Starters : start[s].pc = "done" /\ start[s].result = "stopped"

\* C15 as stated: the run goes from entry i to entry i+1 only in the step
\* that stores a Progress Record with currentItem = i+1 and status
\* 'processing', and that step follows the save of the snapshot.
C15_PersistAfterEach ==
    [][\A s \in Starters :
          (start[s].pc \in {"lookup", "saveCat", "spRead", "spWrite"}
             /\ start'[s].idx = start[s].idx + 1)
              => /\ start[s].pc = "spWrite"
                 /\ progress' # Absent
                 /\ Val(progress').currentItem = start[s].idx + 1
                 /\ Val(progress').status = "processing"]_vars

\* C16: a step of the lookup never deletes or writes a key and never
\* leads the run into its abort; when it does not go on to the save, it
\* leaves the list of the run as it was and goes to the check of the next
\* entry or, after the last entry, to the final save; no step of a run
\* between its initial and final write leads to a teardown; and the final
\* save stores 'completed' with currentItem = totalItems.
C16_LookupErrorSwallowed ==
    [][\A s \in Starters :
          /\ (start[s].pc = "lookup" /\ start'[s] # start[s])
                => /\ store' = store
                   /\ start'[s].pc \in {"saveCat", "check", "spRead"}
                   /\ start'[s].pc # "saveCat"
                         => /\ start'[s].catalog = start[s].catalog
                            /\ start'[s].idx = start[s].idx + 1
                            /\ start'[s].pc = "check"
                                  <=> start'[s].idx < Len(start[s].catalog)
                            /\ start'[s].pc = "spRead" => start'[s].phase = "final"
          /\ (RunMid(s) /\ start'[s] # start[s])
                => start'[s].pc \notin {"clear1", "clear2", "clear3"}
          /\ (start[s].pc = "spWrite" /\ start[s].phase = "final"
                 /\ start'[s] # start[s])
                => /\ progress' # Absent
                   /\ Val(progress').status = "completed"
                   /\ Val(progress').currentItem = Len(start[s].catalog)
                   /\ Val(progress').totalItems = Len(start[s].catalog)
                   /\ start'[s].result = "completed"]_vars

\* The lookup of the last entry raised (the stored cursor stayed behind)
\* and the run is about to write its 'completed' record.
C16_Witness ==
    \E s \in Starters :
        /\ start[s].pc = "spWrite"
        /\ start[s].phase = "final"
        /\ start[s].idx = 2
        /\ start[s].lookups = 2
        /\ progress # Absent
        /\ Val(progress).currentItem = 1
        /\ Val(progress).activeConnections >= 1

\* C17 as stated: when the run stores its initial Progress Record, the
\* Catalog snapshot of the fetched list is stored already.
C17_SnapshotFromStart ==
    [][\A s \in Starters :
          (start[s].pc = "spWrite" /\ start[s].phase = "init"
             /\ start'[s] # start[s])
              => catalog' = Some(start[s].catalog)]_vars

\* C18 as stated: a stream that emits 'no active connections' does so
\* after a detach of some viewer.
C18_NoActiveNeedsDetach ==
    \A v \in Viewers :
        (view[v].pc = "detach" /\ view[v].event = "noActive")
            => \E w \in Viewers : view[w].detaches > 0

\* C19: nothing compensates for an attach that falls between the DECR of
\* another viewer's detach and its teardown test: whoever is attached,
\* line 128 deletes the Viewer Count, the test of line 130 on an
\* unfinished record leads to clearProgress, and clearProgress deletes
\* the three keys.
C19_RaceUncompensated ==
    [][\A v \in Viewers :
          (view'[v] # view[v])
            => /\ view[v].pc = "delConn"
                    => (connections' = Absent /\ view'[v].pc = "detProgress")
               /\ (view[v].pc = "detProgress" /\ OnUnfinished)
                    => view'[v].pc = "clear1"
               /\ view[v].pc = "clear1" => (progress' = Absent /\ view'[v].pc = "clear2")
               /\ view[v].pc = "clear2" => (connections' = Absent /\ view'[v].pc = "clear3")
               /\ view[v].pc = "clear3" => (catalog' = Absent /\ view'[v].pc = "done")]_vars

\* Viewer b attached to the unfinished run inside the detach of viewer a,
\* whose DECR had given zero; a has returned, b is still polling, and the
\* three keys are gone.
C19_Witness ==
    \E a, b \in Viewers :
        /\ a # b
        /\ view[a].pc = "done"
        /\ view[a].current = Some(0)
        /\ att[b].raced
        /\ view[b].pc \in {"getProgress", "getCatalog", "yield"}
        /\ AllAbsent

\* C20: every stored Progress Record has status 'processing' or
\* 'completed', totalItems >= 1, 0 <= currentItem <= totalItems, and
\* currentItem = totalItems when completed; while the run that wrote it
\* holds its fetched list, totalItems is the length of that list; and a
\* Progress Record is stored by a saveProgress of a run only.
C20_WellFormed ==
    /\ [](progress # Absent =>
            LET p == Val(progress)
            IN  /\ p.status \in {"processing", "completed"}
                /\ p.totalItems >= 1
                /\ p.currentItem >= 0
                /\ p.currentItem <= p.totalItems
                /\ p.status = "completed" => p.currentItem = p.totalItems
                /\ \A s \in Starters :
                      InFlight(s) => p.totalItems = Len(start[s].catalog))
    /\ [][(progress' # progress /\ progress' # Absent)
             => \E s \in Starters :
                   /\ start[s].pc = "spWrite"
                   /\ Val(progress').totalItems = Len(start[s].catalog)]_vars

\* The record of a run in its loop: one of two entries done.
C20_Witness ==
    /\ progress # Absent
    /\ Val(progress).status = "processing"
    /\ Val(progress).currentItem = 1
    /\ Val(progress).totalItems = 2
    /\ \E s \in Starters : InFlight(s) /\ start[s].pc = "check"

====
